---- MODULE Spec2Model ----
(***************************************************************************)
(* Model of the crossword CSP solver, src/src3/crossword/generate.py       *)
(* (class CrosswordCreator).  The state is one CrosswordCreator object     *)
(* together with the Crossword it was built from; every public method is   *)
(* one action, taken as a whole call.  A call either returns a value or    *)
(* raises; when it raises, the object keeps the state it had at the raise. *)
(*                                                                         *)
(* Words are sequences of letters; Python's 0-based word[i] is w[i+1] and  *)
(* raises IndexError when i >= Len(w).                                     *)
(***************************************************************************)
EXTENDS Integers, Sequences, FiniteSets, TLC

\* ------------------------------------------------------------------ bounds
\* largest vocabulary handed to Crossword()
MaxWords == 2
\* most method calls made on one CrosswordCreator
MaxCalls == 3

\* ------------------------------------------------------ inputs (bounded)
cat == <<"c", "a", "t">>
ten == <<"t", "e", "n">>
ab == <<"a", "b">>

WordUniverse == {cat, ten, ab}

NoOverlaps == [k \in {} |-> <<0, 0>>]

\* two slots crossing at letter 2 of A and letter 0 of B
Crossing == (<<"A", "B">> :> <<2, 0>>) @@ (<<"B", "A">> :> <<0, 2>>)

\* Slot geometries: the slots, their lengths and the directed overlap
\* entries (x,y) -> (p,q): letter p of x is letter q of y.
Geometries ==
    { [variables |-> {}, length |-> [v \in {} |-> 0], overlaps |-> NoOverlaps],
      [variables |-> {"A"}, length |-> [v \in {"A"} |-> 3], overlaps |-> NoOverlaps],
      [variables |-> {"A", "B"}, length |-> [v \in {"A", "B"} |-> 3],
       overlaps |-> Crossing],
      [variables |-> {"A", "B", "C"},
       length |-> ("A" :> 3) @@ ("B" :> 3) @@ ("C" :> 2),
       overlaps |-> Crossing] }

Vocabularies == {W \in SUBSET WordUniverse : Cardinality(W) <= MaxWords}

\* ------------------------------------------------------------------ state
VARIABLES
    crossword,   \* self.crossword: variables, length, words, overlaps
    overlaps0,   \* the overlap relation as built at construction (history)
    domains,     \* self.domains: slot -> set of words
    attrs,       \* attributes created after __init__: "domains_copy", "domain"
    snapshot,    \* value self.domains had when inference() took its "copy" (history)
    last,        \* the call whose outcome the caller holds: method, arguments, outcome
    calls        \* number of calls made on the object

vars == <<crossword, overlaps0, domains, attrs, snapshot, last, calls>>

\* ---------------------------------------------------------------- helpers
Return(t, v) == [kind |-> "return", type |-> t, val |-> v]
Raise(e) == [kind |-> "raise", type |-> "exception", val |-> e]
None == Return("none", "None")

\* the part of the object a call can change
Self(d, o, a, s) == [domains |-> d, overlaps |-> o, attrs |-> a, snapshot |-> s]
Out(r, st) == [ret |-> r, st |-> st]

RECURSIVE Perms(_)
Perms(S) == IF S = {} THEN {<<>>}
            ELSE UNION {{<<x>> \o p : p \in Perms(S \ {x})} : x \in S}

RECURSIVE SumOver(_, _)
SumOver(S, f) == IF S = {} THEN 0
                 ELSE LET x == CHOOSE y \in S : TRUE
                      IN f[x] + SumOver(S \ {x}, f)

Min(S) == CHOOSE m \in S : \A n \in S : m <= n

Restrict(f, K) == [k \in K |-> f[k]]

\* Crossword.neighbors(var): the slots that share an overlap entry with var
neighbors(ov, var) == {v \in crossword.variables : <<v, var>> \in DOMAIN ov}

\* ---------------------------------------------------------- __init__
Init ==
    \E g \in Geometries, W \in Vocabularies :
        /\ crossword = [variables |-> g.variables, length |-> g.length,
                        words |-> W, overlaps |-> g.overlaps]
        /\ overlaps0 = g.overlaps
        /\ domains = [v \in g.variables |-> W]
        /\ attrs = {}
        /\ snapshot = [v \in g.variables |-> W]
        /\ last = [op |-> "idle"]
        /\ calls = 0

\* ------------------------------------------- enforce_node_consistency
\* The loop removes from the set it is iterating: the first removal makes
\* the iterator raise RuntimeError at its next step, so exactly one
\* wrong-length word of one slot is removed before the raise.  Slots and
\* words are visited in hash order, so any such (slot, word) can be first.
WrongLength(d) == {p \in crossword.variables \X crossword.words :
                      /\ p[2] \in d[p[1]]
                      /\ Len(p[2]) # crossword.length[p[1]]}

enforce_node_consistency(st) ==
    IF WrongLength(st.domains) = {}
    THEN {Out(None, st)}
    ELSE {Out(Raise("RuntimeError"),
              [st EXCEPT !.domains[p[1]] = @ \ {p[2]}]) : p \in WrongLength(st.domains)}

\* ------------------------------------------------------------- revise
\* The inner loop of revise for one x_word: y's words are visited in the
\* order oy; x_word[i] and y_word[j] are indexed at each visit.
InnerLoop(x_word, oy, i, j) ==
    IF oy = <<>> THEN "no"
    ELSE IF i >= Len(x_word) THEN "IndexError"
    ELSE LET hits == {m \in 1..Len(oy) :
                         \/ j >= Len(oy[m])
                         \/ oy[m][j + 1] = x_word[i + 1]}
         IN IF hits = {} THEN "no"
            ELSE IF j >= Len(oy[Min(hits)]) THEN "IndexError"
            ELSE "ok"

\* mutant: an unsupported word resets domains[x] to the vocabulary without
\* that word, in place of removing the word from domains[x]
RECURSIVE ReviseLoopReset(_, _, _, _, _, _, _)
ReviseLoopReset(st, x, y, ox, k, revised, oy) ==
    IF k > Len(ox) THEN Out(Return("bool", revised), st)
    ELSE LET ij == st.overlaps[<<x, y>>]
             yLive == SelectSeq(oy, LAMBDA w : w \in st.domains[y])
             r == InnerLoop(ox[k], yLive, ij[1], ij[2])
         IN IF r = "IndexError" THEN Out(Raise("IndexError"), st)
            ELSE IF r = "ok" THEN ReviseLoopReset(st, x, y, ox, k + 1, revised, oy)
            ELSE ReviseLoopReset([st EXCEPT !.domains[x] = crossword.words \ {ox[k]}],
                                 x, y, ox, k + 1, TRUE, oy)

\* The outer loop over a copy of domains[x], in the order ox, from word k on.
RECURSIVE ReviseLoop(_, _, _, _, _, _, _)
ReviseLoop(st, x, y, ox, k, revised, oy) ==
    IF k > Len(ox) THEN Out(Return("bool", revised), st)
    ELSE LET ij == st.overlaps[<<x, y>>]
             yLive == SelectSeq(oy, LAMBDA w : w \in st.domains[y])
             r == InnerLoop(ox[k], yLive, ij[1], ij[2])
         IN IF r = "IndexError" THEN Out(Raise("IndexError"), st)
            ELSE IF r = "ok" THEN ReviseLoop(st, x, y, ox, k + 1, revised, oy)
            ELSE ReviseLoop([st EXCEPT !.domains[x] = @ \ {ox[k]}],
                            x, y, ox, k + 1, TRUE, oy)

\* revise(x, y): every outcome the set iteration orders allow.
revise(st, x, y) ==
    IF <<x, y>> \notin DOMAIN st.overlaps
    THEN {Out(Raise("KeyError"), st)}
    ELSE {ReviseLoop(st, x, y, ox, 1, FALSE, oy) :
              ox \in Perms(st.domains[x]), oy \in Perms(st.domains[y])}

\* ---------------------------------------------------------------- ac3
\* `key, = queue.popitem()`: popitem gives the pair (key, value); the
\* target list has one name, so only a 1-tuple unpacks.
UnpackKey(item) ==
    IF Len(item) = 1 THEN [ok |-> TRUE, key |-> item[1]]
    ELSE [ok |-> FALSE, key |-> <<>>]

\* `set(y)` with y a Variable: a Variable is not iterable.
SetOfVariable(y) == [ok |-> FALSE, val |-> {}]

\* The while loop of ac3.  queue is a dict from arcs to offsets; when
\* `aliased`, it is self.crossword.overlaps itself (line 144), so what is
\* popped from or put into the queue is popped from or put into the overlaps.
\* popitem takes the entry inserted last; the insertion order comes from set
\* iteration, so any entry can be the one.
RECURSIVE Ac3Loop(_, _, _, _)
RECURSIVE Requeue(_, _, _, _, _, _)
Ac3Loop(st, queue, queue_copy, aliased) ==
    IF DOMAIN queue = {} THEN {Out(Return("bool", TRUE), st)}
    ELSE UNION {
        LET item == <<k, queue[k]>>
            q1 == Restrict(queue, DOMAIN queue \ {k})
            st1 == IF aliased THEN [st EXCEPT !.overlaps = q1] ELSE st
            u == UnpackKey(item)
        IN IF ~u.ok THEN {Out(Raise("ValueError"), st1)}
           ELSE UNION {
               IF rv.ret.kind = "raise" THEN {rv}
               ELSE IF ~rv.ret.val THEN Ac3Loop(rv.st, q1, queue_copy, aliased)
               ELSE IF rv.st.domains[u.key[1]] = {}
                    THEN {Out(Return("bool", FALSE), rv.st)}
               ELSE IF ~SetOfVariable(u.key[2]).ok
                    THEN {Out(Raise("TypeError"), rv.st)}
               ELSE Requeue(rv.st, q1, queue_copy, aliased, u.key[1],
                            neighbors(rv.st.overlaps, u.key[1])
                                \ SetOfVariable(u.key[2]).val)
               : rv \in revise(st1, u.key[1], u.key[2]) }
        : k \in DOMAIN queue }

\* lines 154-155: queue[var, x] = queue_copy[var, x] for each var in todo
Requeue(st, queue, queue_copy, aliased, x, todo) ==
    IF todo = {} THEN Ac3Loop(st, queue, queue_copy, aliased)
    ELSE UNION {
        IF <<v, x>> \notin DOMAIN queue_copy THEN {Out(Raise("KeyError"), st)}
        ELSE LET q1 == (<<v, x>> :> queue_copy[<<v, x>>]) @@ queue
                 st1 == IF aliased THEN [st EXCEPT !.overlaps = q1] ELSE st
             IN Requeue(st1, q1, queue_copy, aliased, x, todo \ {v})
        : v \in todo }

\* The arcs argument of ac3: None (the default) or a dict from arcs to offsets
NoArcs == [none |-> TRUE, dict |-> NoOverlaps]
Arcs(d) == [none |-> FALSE, dict |-> d]

\* ac3(arcs)
ac3(st, arcs) ==
    IF arcs.none \/ DOMAIN arcs.dict = {}
    THEN Ac3Loop(st, st.overlaps, st.overlaps, TRUE)
    ELSE Ac3Loop(st, arcs.dict, arcs.dict, FALSE)

\* ------------------------------------------------ assignment_complete
\* mutant: `<=` for `==` in the length comparison
assignment_complete_le(assignment) ==
    Cardinality(DOMAIN assignment) <= Cardinality(crossword.variables)

assignment_complete(assignment) ==
    Cardinality(DOMAIN assignment) = Cardinality(crossword.variables)

\* ----------------------------------------------------------- consistent
\* One neighbor of var in the inner loop: what ends the call there, if anything
ConsistentNeighbor(st, assignment, var, neighbor) ==
    LET ij == st.overlaps[<<neighbor, var>>]
        word_x == assignment[var]
    IN IF neighbor \notin DOMAIN assignment THEN {Raise("KeyError")}
       ELSE IF ij[1] >= Len(word_x) \/ ij[2] >= Len(assignment[neighbor])
            THEN {Raise("IndexError")}
       ELSE IF word_x[ij[1] + 1] # assignment[neighbor][ij[2] + 1]
            THEN {Return("bool", FALSE)}
       ELSE {}

\* One var of the outer loop: the ways its checks can end the call
ConsistentVar(st, assignment, var) ==
    IF Len(assignment[var]) # crossword.length[var]
    THEN {Return("bool", FALSE)}
    ELSE UNION {ConsistentNeighbor(st, assignment, var, n) :
                    n \in neighbors(st.overlaps, var)}

\* consistent(assignment), the dict iterated with the keys `early` (in any
\* order) before the keys `late`; the first check that fails ends the call.
ConsistentOrdered(st, assignment, early, late) ==
    LET E == UNION {ConsistentVar(st, assignment, v) : v \in early}
        L == UNION {ConsistentVar(st, assignment, v) : v \in late}
    IN IF E # {} THEN E ELSE IF L # {} THEN L ELSE {Return("bool", TRUE)}

consistent(st, assignment) ==
    ConsistentOrdered(st, assignment, DOMAIN assignment, {})

\* --------------------------------------------------- order_domain_values
\* the offsets read at line 201
OdvOffsets(st, var, neighbor) == st.overlaps[<<neighbor, var>>]

OdvNeighbors(st, var, assignment) ==
    neighbors(st.overlaps, var) \ DOMAIN assignment

\* cnt for word1 (lines 199-204)
RuleOut(st, var, assignment, word1) ==
    LET N == OdvNeighbors(st, var, assignment)
        perN == [n \in N |->
                    Cardinality({word2 \in st.domains[n] :
                        word1[OdvOffsets(st, var, n)[1] + 1]
                            # word2[OdvOffsets(st, var, n)[2] + 1]})]
    IN SumOver(N, perN)

\* some word1[i] or word2[j] at line 203 is out of range
OdvIndexError(st, var, assignment) ==
    \E word1 \in st.domains[var] :
        \E n \in OdvNeighbors(st, var, assignment) :
            \E word2 \in st.domains[n] :
                \/ OdvOffsets(st, var, n)[1] >= Len(word1)
                \/ OdvOffsets(st, var, n)[2] >= Len(word2)

\* order_domain_values(var, assignment): sorted() is stable, so words with
\* equal counts keep the set's iteration order, which can be any.
order_domain_values(st, var, assignment) ==
    IF OdvIndexError(st, var, assignment) THEN {Raise("IndexError")}
    ELSE {Return("list", p) : p \in
            {q \in Perms(st.domains[var]) :
                \A a \in 1..Len(q) : \A b \in a..Len(q) :
                    RuleOut(st, var, assignment, q[a])
                        <= RuleOut(st, var, assignment, q[b])}}

\* ------------------------------------------- select_unassigned_variable
Unassigned(assignment) == crossword.variables \ DOMAIN assignment

Remain(st, var) == Cardinality(st.domains[var])
Degree(st, var) == Cardinality(neighbors(st.overlaps, var))

\* mutant: the sort key is (remain, degree), so ties go to the lowest degree
KeyLeqLowDegree(st, u, v) ==
    \/ Remain(st, u) < Remain(st, v)
    \/ Remain(st, u) = Remain(st, v) /\ Degree(st, u) <= Degree(st, v)

\* tuple_compare order: (remain, -degree) ascending
KeyLeq(st, u, v) ==
    \/ Remain(st, u) < Remain(st, v)
    \/ Remain(st, u) = Remain(st, v) /\ Degree(st, u) >= Degree(st, v)

\* choices (lines 234-238): the entries whose (remain, degree) equals that of data[0]
Choices(st, assignment) ==
    {v \in Unassigned(assignment) :
        \A u \in Unassigned(assignment) : KeyLeq(st, v, u)}

\* random.choice(choices)[0]
RandomChoice(choices) == choices

select_unassigned_variable(st, assignment) ==
    IF Unassigned(assignment) = {} THEN {Raise("IndexError")}
    ELSE {Return("var", v) : v \in RandomChoice(Choices(st, assignment))}

\* ------------------------------------------------------------ inference
inference(st, var) ==
    LET st1 == [st EXCEPT !.attrs = @ \cup {"domains_copy"},
                          !.snapshot = st.domains]
        keys == {<<n, var>> : n \in neighbors(st.overlaps, var)}
    IN ac3(st1, Arcs(Restrict(st.overlaps, keys \cap DOMAIN st.overlaps)))

\* ------------------------------------------------------------ backtrack
\* an outcome of backtrack; `restored` records that line 278 or 283 ran
BOut(r, st, restored) == [ret |-> r, st |-> st, restored |-> restored]

EmptyAssignment == [v \in {} |-> <<>>]

\* `infer = self.inference()` (line 276): inference takes var and the call
\* passes none, so the call raises before inference's body runs.
InferenceCall(st, var) == {Out(Raise("TypeError"), st)}

\* `self.domain = self.domains_copy` (lines 278 and 283): reads the attribute
\* inference() creates, and binds a new attribute `domain` to the same dict;
\* self.domains is not assigned.
Restore(st) ==
    IF "domains_copy" \in st.attrs
    THEN [ok |-> TRUE, st |-> [st EXCEPT !.attrs = @ \cup {"domain"}]]
    ELSE [ok |-> FALSE, st |-> st]

\* `if result:` (line 280)
Truthy(ret) ==
    \/ ret.type = "bool" /\ ret.val
    \/ ret.type = "dict" /\ DOMAIN ret.val # {}

RECURSIVE backtrack(_, _)
RECURSIVE TryValues(_, _, _, _, _, _)
RECURSIVE NextValue(_, _, _, _, _, _)
RECURSIVE AfterInference(_, _, _, _, _, _, _)

\* lines 283-284, then the next value of the for loop
NextValue(st, assignment_copy, var, values, k, restored) ==
    LET r == Restore(st)
    IN IF ~r.ok THEN {BOut(Raise("AttributeError"), st, restored)}
       ELSE TryValues(r.st, assignment_copy, var, values, k + 1, TRUE)

\* lines 277-281, given the outcome io of the inference call
AfterInference(io, a1, assignment_copy, var, values, k, restored) ==
    IF io.ret.kind = "raise" THEN {BOut(io.ret, io.st, restored)}
    ELSE LET r278 == Restore(io.st)
         IN IF ~io.ret.val /\ ~r278.ok
            THEN {BOut(Raise("AttributeError"), io.st, restored)}
            ELSE LET st2 == IF io.ret.val THEN io.st ELSE r278.st
                     res2 == restored \/ ~io.ret.val
                 IN UNION {
                      IF b.ret.kind = "raise" \/ Truthy(b.ret)
                      THEN {[b EXCEPT !.restored = @ \/ res2]}
                      ELSE NextValue(b.st, assignment_copy, var, values, k,
                                     res2 \/ b.restored)
                      : b \in backtrack(st2, a1) }

\* the for loop of lines 271-284 from the k-th value on.  assignment[var] =
\* value puts var last in the dict, so consistent() visits it last.
TryValues(st, assignment, var, values, k, restored) ==
    IF k > Len(values) THEN {BOut(Return("bool", FALSE), st, restored)}
    ELSE LET assignment_copy == assignment
             a1 == (var :> values[k]) @@ assignment
         IN UNION {
              IF c.kind = "raise" THEN {BOut(c, st, restored)}
              ELSE IF c.val
                   THEN UNION {AfterInference(io, a1, assignment_copy, var,
                                              values, k, restored) :
                                   io \in InferenceCall(st, var)}
              ELSE NextValue(st, assignment_copy, var, values, k, restored)
              : c \in ConsistentOrdered(st, a1, DOMAIN assignment, {var}) }

backtrack(st, assignment) ==
    IF assignment_complete(assignment)
    THEN {BOut(Return("dict", assignment), st, FALSE)}
    ELSE UNION {
           UNION {
             IF l.kind = "raise" THEN {BOut(l, st, FALSE)}
             ELSE TryValues(st, assignment, v.val, l.val, 1, FALSE)
             : l \in order_domain_values(st, v.val, assignment) }
           : v \in select_unassigned_variable(st, assignment) }

\* ---------------------------------------------------------------- solve
\* an outcome of solve; nc is self.domains as enforce_node_consistency left
\* it, `searched` records that backtrack was called
SOut(r, st, nc, searched) == [ret |-> r, st |-> st, nc |-> nc, searched |-> searched]

solve(st) ==
    UNION {
      IF n.ret.kind = "raise" THEN {SOut(n.ret, n.st, n.st.domains, FALSE)}
      ELSE UNION {
             IF a.ret.kind = "raise" THEN {SOut(a.ret, a.st, n.st.domains, FALSE)}
             ELSE {SOut(b.ret, b.st, n.st.domains, TRUE) :
                       b \in backtrack(a.st, EmptyAssignment)}
             : a \in ac3(n.st, NoArcs) }
      : n \in enforce_node_consistency(st) }

\* -------------------------------------------------------------- actions
Me == Self(domains, crossword.overlaps, attrs, snapshot)

\* a caller may call a method when no outcome is pending (Ready); the call
\* leaves the object in state st and hands the outcome rec to the caller
Ready == last.op = "idle" /\ calls < MaxCalls

Call(st, rec) ==
    /\ calls' = calls + 1
    /\ domains' = st.domains
    /\ crossword' = [crossword EXCEPT !.overlaps = st.overlaps]
    /\ attrs' = st.attrs
    /\ snapshot' = st.snapshot
    /\ last' = rec
    /\ UNCHANGED overlaps0

\* the dicts a caller can pass as an assignment: slots to words of the vocabulary
Assignments ==
    UNION {[V -> crossword.words] : V \in SUBSET crossword.variables}

\* the dicts a caller can pass as arcs: one arc, or all of them
ArcDicts ==
    {Arcs(Restrict(overlaps0, K)) :
        K \in {{k} : k \in DOMAIN overlaps0} \cup {DOMAIN overlaps0}}

\* solve(); `again` is what a second run from the same state returns
Solve ==
    /\ Ready
    /\ \E o \in solve(Me), o2 \in solve(Me) :
           Call(o.st, [op |-> "solve", ret |-> o.ret, nc |-> o.nc,
                       searched |-> o.searched, again |-> o2.ret])

EnforceNodeConsistency ==
    /\ Ready
    /\ \E o \in enforce_node_consistency(Me) :
           Call(o.st, [op |-> "enforce_node_consistency", ret |-> o.ret])

Revise ==
    /\ Ready
    /\ \E x \in crossword.variables, y \in crossword.variables :
           /\ x # y
           /\ \E o \in revise(Me, x, y) :
                 Call(o.st, [op |-> "revise", x |-> x, y |-> y, ret |-> o.ret])

\* ac3(arcs); `twice` is the outcome and the domains of a second call made
\* straight after the first, on the object as the first call left it
Ac3 ==
    /\ Ready
    /\ \E arcs \in {NoArcs} \cup ArcDicts :
           \E o \in ac3(Me, arcs) :
               \E o2 \in ac3(o.st, arcs) :
                   Call(o.st, [op |-> "ac3", arcs |-> arcs, ret |-> o.ret,
                               twice |-> [ret |-> o2.ret,
                                          domains |-> o2.st.domains]])

Inference ==
    /\ Ready
    /\ \E var \in crossword.variables :
           \E o \in inference(Me, var) :
               Call(o.st, [op |-> "inference", var |-> var, ret |-> o.ret])

Backtrack ==
    /\ Ready
    /\ \E assignment \in Assignments :
           \E o \in backtrack(Me, assignment) :
               Call(o.st, [op |-> "backtrack", assignment |-> assignment,
                           ret |-> o.ret, restored |-> o.restored])

\* select_unassigned_variable(assignment); `again` is what a second call
\* with the same object and assignment returns
SelectUnassignedVariable ==
    /\ Ready
    /\ \E assignment \in Assignments :
           \E r1 \in select_unassigned_variable(Me, assignment),
              r2 \in select_unassigned_variable(Me, assignment) :
               Call(Me, [op |-> "select_unassigned_variable",
                         assignment |-> assignment, ret |-> r1, again |-> r2])

Consistent ==
    /\ Ready
    /\ \E assignment \in Assignments :
           \E r \in consistent(Me, assignment) :
               Call(Me, [op |-> "consistent", assignment |-> assignment, ret |-> r])

OrderDomainValues ==
    /\ Ready
    /\ \E assignment \in Assignments :
           \E var \in Unassigned(assignment) :
               \E r \in order_domain_values(Me, var, assignment) :
                   Call(Me, [op |-> "order_domain_values", var |-> var,
                             assignment |-> assignment, ret |-> r])

\* the caller takes the returned value, or catches the exception, and goes on
TakeOutcome ==
    /\ last.op # "idle"
    /\ calls < MaxCalls
    /\ last' = [op |-> "idle"]
    /\ UNCHANGED <<crossword, overlaps0, domains, attrs, snapshot, calls>>

Next ==
    \/ Solve
    \/ EnforceNodeConsistency
    \/ Revise
    \/ Ac3
    \/ Inference
    \/ Backtrack
    \/ SelectUnassignedVariable
    \/ Consistent
    \/ OrderDomainValues
    \/ TakeOutcome

Spec == Init /\ [][Next]_vars

\* ================================================================ claims
\* a returned value that is a dict
ReturnedDict(r) == r.kind = "return" /\ r.type = "dict"

\* a total assignment that meets every length and every overlap of the geometry
IsSolution(a) ==
    /\ DOMAIN a = crossword.variables
    /\ \A v \in crossword.variables : Len(a[v]) = crossword.length[v]
    /\ \A k \in DOMAIN overlaps0 :
          a[k[1]][overlaps0[k][1] + 1] = a[k[2]][overlaps0[k][2] + 1]

Solvable == \E a \in [crossword.variables -> crossword.words] : IsSolution(a)

\* every word of x's domain has a letter-compatible word in y's domain, for
\* every overlap (x,y) of the geometry
ArcConsistent ==
    \A k \in DOMAIN overlaps0 :
        \A w \in domains[k[1]] :
            \E v \in domains[k[2]] :
                /\ overlaps0[k][1] < Len(w)
                /\ overlaps0[k][2] < Len(v)
                /\ w[overlaps0[k][1] + 1] = v[overlaps0[k][2] + 1]

SolveComplete ==
    (last.op = "solve" /\ calls = 1 /\ Solvable)
        => (ReturnedDict(last.ret) /\ IsSolution(last.ret.val))

\* C3: on a puzzle with no solution, solve() ends by returning None, never
\* by raising.
SolveReportsNoSolution ==
    (last.op = "solve" /\ calls = 1 /\ ~Solvable) => last.ret = None

\* C4: when backtrack() has rolled a propagation back (line 278 or 283 ran),
\* every domain of self.domains is what it was when inference() saved the
\* Domain Store before propagating (checked for saved stores that were node
\* consistent).
RollbackRestoresDomains ==
    (last.op = "backtrack" /\ last.restored /\ WrongLength(snapshot) = {})
        => domains = snapshot

\* C5: if enforce_node_consistency leaves a slot with an empty domain,
\* solve() reports no-solution and backtrack is never called.
EmptyDomainEndsSolve ==
    (last.op = "solve" /\ calls = 1 /\ \E v \in crossword.variables : last.nc[v] = {})
        => (last.ret = None /\ ~last.searched)

\* C6: two runs of solve() on the same inputs give the same result, and two
\* calls of select_unassigned_variable on the same inputs choose the same slot.
Deterministic ==
    (last.op \in {"solve", "select_unassigned_variable"}) => last.ret = last.again

\* C7: when ac3() is called with no arcs (on node-consistent domains) and
\* returns True, the domains are arc consistent for every overlap of the
\* geometry.
Ac3TrueIsArcConsistent ==
    (/\ last.op = "ac3"
     /\ last.arcs.none
     /\ last.ret = Return("bool", TRUE)
     /\ WrongLength(domains) = {})
        => ArcConsistent

\* C8: ac3 returns False exactly when some slot's domain is empty on return.
Ac3FalseIffEmptyDomain ==
    (last.op = "ac3" /\ last.ret.kind = "return")
        => (last.ret.val = FALSE <=> \E v \in crossword.variables : domains[v] = {})

\* C9: the overlap relation of the Crossword is never changed by a call.
OverlapsImmutable == crossword.overlaps = overlaps0

\* C10: after enforce_node_consistency() on a new CrosswordCreator, every
\* slot's domain is exactly the vocabulary words of the slot's length.
NodeConsistentAfterEnforce ==
    (last.op = "enforce_node_consistency" /\ calls = 1)
        => \A v \in crossword.variables :
              domains[v] = {w \in crossword.words : Len(w) = crossword.length[v]}

\* C11: across any call of revise() or ac3(), whatever it returns or raises,
\* every slot's domain after the call is a subset of its domain before it.
DomainsOnlyShrink ==
    [][last'.op \in {"revise", "ac3"}
          => \A v \in crossword.variables : domains'[v] \subseteq domains[v]]_vars

\* C11 witness: revise() has removed a word from a domain
ReviseHasPruned ==
    /\ last.op = "revise"
    /\ last.ret = Return("bool", TRUE)
    /\ \E v \in crossword.variables : domains[v] # crossword.words

\* C12: for a node-consistent Domain Store, a second ac3() straight after the
\* first gives the same outcome and leaves the same domains as the first.
Ac3Idempotent ==
    (last.op = "ac3" /\ last.arcs.none /\ WrongLength(domains) = {})
        => /\ last.twice.ret = last.ret
           /\ last.twice.domains = domains

\* C13: every ac3() call ends with its work queue drained or with some domain
\* emptied.  Called without arcs, the queue is the overlaps dict of the
\* Crossword, so what is left of the queue after the call is what is left
\* of the overlaps.
Ac3DrainsOrEmpties ==
    (last.op = "ac3" /\ last.arcs.none)
        => \/ DOMAIN crossword.overlaps = {}
           \/ \E v \in crossword.variables : domains[v] = {}

\* what C14 requires of an assignment: every assigned word has its slot's
\* length, and for every pair of assigned slots x, y that overlap at offsets
\* (p, q), letter p of x's word is letter q of y's word
FitsTogether(a) ==
    /\ \A v \in DOMAIN a : Len(a[v]) = crossword.length[v]
    /\ \A x \in DOMAIN a : \A y \in DOMAIN a :
           <<x, y>> \in DOMAIN overlaps0
               => a[x][overlaps0[<<x, y>>][1] + 1] = a[y][overlaps0[<<x, y>>][2] + 1]

\* C14: consistent(assignment), on an object whose Crossword is as it was
\* built, returns True when the assigned words have their slots' lengths and
\* agree on the shared letter of every assigned overlapping pair, and returns
\* False otherwise; unassigned neighbours impose nothing.
ConsistentChecksAssigned ==
    (last.op = "consistent" /\ calls = 1)
        => last.ret = Return("bool", FitsTogether(last.assignment))

\* the domains of a newly built object
FreshDomains == [v \in crossword.variables |-> crossword.words]

\* with var given value, some unassigned neighbour n of var is left without a
\* candidate: no word of d[n] has value's letter at the overlap
PropagationFails(d, a, var, value) ==
    \E n \in neighbors(overlaps0, var) \ DOMAIN a :
        \A w \in d[n] :
            value[overlaps0[<<var, n>>][1] + 1] # w[overlaps0[<<var, n>>][2] + 1]

\* C15: backtrack(assignment) on a newly built, node-consistent object, where
\* every candidate of every unassigned slot fits the assignment and fails
\* propagation: each candidate is pruned and the search moves on to the next,
\* so the call returns (no exception), returns no assignment, and leaves the
\* domains as they were.
PrunedCandidatesAreSkipped ==
    (/\ last.op = "backtrack"
     /\ calls = 1
     /\ WrongLength(FreshDomains) = {}
     /\ FitsTogether(last.assignment)
     /\ Unassigned(last.assignment) # {}
     /\ \A var \in Unassigned(last.assignment) :
            \A value \in FreshDomains[var] :
                /\ FitsTogether((var :> value) @@ last.assignment)
                /\ PropagationFails(FreshDomains, last.assignment, var, value))
        => /\ last.ret.kind = "return"
           /\ last.ret.type # "dict"
           /\ domains = FreshDomains

\* C16: select_unassigned_variable(assignment), when some slot is unassigned,
\* returns an unassigned slot whose domain is smallest among the unassigned
\* slots and which has the most neighbors among those of smallest domain.
SelectsFewestThenMostNeighbors ==
    (last.op = "select_unassigned_variable"
        /\ crossword.variables \ DOMAIN last.assignment # {})
    => LET U == crossword.variables \ DOMAIN last.assignment
           size(v) == Cardinality(domains[v])
           nbrs(v) == Cardinality(neighbors(crossword.overlaps, v))
       IN /\ last.ret.kind = "return"
          /\ last.ret.val \in U
          /\ \A u \in U : size(last.ret.val) <= size(u)
          /\ \A u \in U : size(u) = size(last.ret.val)
                              => nbrs(u) <= nbrs(last.ret.val)

\* C16 witness: a slot was returned while another unassigned slot had a domain
\* of the same size and fewer neighbors
SelectBrokeTieByNeighbors ==
    /\ last.op = "select_unassigned_variable"
    /\ last.ret.kind = "return"
    /\ \E u \in crossword.variables \ DOMAIN last.assignment :
          /\ Cardinality(domains[u]) = Cardinality(domains[last.ret.val])
          /\ Cardinality(neighbors(crossword.overlaps, u))
                < Cardinality(neighbors(crossword.overlaps, last.ret.val))

\* the number of candidates that giving `word` to var would eliminate from
\* the unassigned neighbors of var: for a neighbor n with overlap offsets
\* (p, q) between var and n, the words u of n's domain with word[p] # u[q]
Eliminates(var, a, word) ==
    LET N == neighbors(overlaps0, var) \ DOMAIN a
        perN == [n \in N |->
                    Cardinality({u \in domains[n] :
                        word[overlaps0[<<var, n>>][1] + 1]
                            # u[overlaps0[<<var, n>>][2] + 1]})]
    IN SumOver(N, perN)

\* C17: order_domain_values(var, assignment) on a newly built, node-consistent
\* object returns a list holding every word of var's domain exactly once, in
\* ascending order of the number of candidates the word would eliminate from
\* var's unassigned neighbors.
OrdersByEliminated ==
    (last.op = "order_domain_values" /\ calls = 1
        /\ WrongLength(FreshDomains) = {})
    => /\ last.ret.kind = "return"
       /\ Len(last.ret.val) = Cardinality(domains[last.var])
       /\ {last.ret.val[i] : i \in 1..Len(last.ret.val)} = domains[last.var]
       /\ \A i \in 1..Len(last.ret.val) : \A j \in i..Len(last.ret.val) :
              Eliminates(last.var, last.assignment, last.ret.val[i])
                  <= Eliminates(last.var, last.assignment, last.ret.val[j])

====
